---------------------------- MODULE Spec2Model ----------------------------
(***************************************************************************)
(* A model of the OPTIMADE client of tutorial/local_module/optimade.py:    *)
(*   _perform_optimade_query   the query executor (one HTTP GET),          *)
(*   count_structures          the count query,                            *)
(*   yield_structures          the paginated generator,                    *)
(*   _get_versioned_base_url   the endpoint version resolver,              *)
(*   update_provider_cache     the refresh of the provider cache             *)
(*                             (_fetch_providers),                         *)
(* and of load_temp_profile of tutorial/local_module/temp_profile.py.      *)
(*                                                                         *)
(* Strings are sequences of tokens.  A token is a single character ("/",   *)
(* ".", ",", ...) or a word that no operation of the program splits (a     *)
(* host name, a field name, a fixed piece of a message).  An optional      *)
(* value is <<>> (None) or <<v>>.                                          *)
(***************************************************************************)
EXTENDS Integers, Sequences, FiniteSets, TLC

VARIABLES
    op,          \* the top-level function that was called
    pc,          \* where that call stands
    calls,       \* the arguments of every _perform_optimade_query call so far
    http,        \* every requests.get issued so far: [url, outcome]
    result,      \* what the top-level call returned or raised
    offset,      \* yield_structures: the running offset
    batch,       \* yield_structures: the batch argument
    max_results, \* yield_structures: the max_results argument (optional)
    data,        \* the JSON document of the last response (the page being iterated)
    idx,         \* yield_structures: position of the for loop in data["data"]
    yielded,     \* yield_structures: the structures handed to the consumer
    base_url,    \* _get_versioned_base_url: the base_url argument
    probe,       \* _get_versioned_base_url: index of the next /info candidate
    providers,   \* _fetch_providers: the providers list (optional)
    pos,         \* _fetch_providers: position of the running for loop
    ok_providers,\* _fetch_providers: the providers that resolved
    links,       \* _fetch_providers: the list to return
    cache_file,  \* update_provider_cache: the content of the cache file
    profile,     \* the name of the loaded AiiDA profile (optional)
    computers,   \* the Computer rows of the loaded profile's storage
    codes,       \* the Code rows of the loaded profile's storage
    nodes,       \* how many objects were ever stored (the next uuid)
    loads        \* every load_temp_profile call so far: arguments and outcome

vars == <<op, pc, calls, http, result, offset, batch, max_results, data, idx,
          yielded, base_url, probe, providers, pos, ok_providers, links,
          cache_file, profile, computers, codes, nodes, loads>>

-----------------------------------------------------------------------------
(* Bounds of the model *)

MaxPage == 3        \* most entries a provider puts in one page
MaxBatch == 3       \* largest batch / page_limit argument
MaxResults == 3     \* largest max_results argument
MaxFetch == 2       \* most fetches of one stream that are followed
MaxTotal == 2       \* largest meta.data_returned a provider reports
MaxPrefix == 1      \* most path tokens between the host and the URL's ending

-----------------------------------------------------------------------------
(* Values and strings *)

None == <<>>
Some(v) == <<v>>

SeqUpTo(S, n) == UNION {[1..k -> S] : k \in 0..n}

EndsWith(s, t) ==
    /\ Len(s) >= Len(t)
    /\ SubSeq(s, Len(s) - Len(t) + 1, Len(s)) = t

Contains(s, t) ==
    \E k \in 0..(Len(s) - Len(t)) : SubSeq(s, k + 1, k + Len(t)) = t

RECURSIVE Strip(_, _)
Strip(s, c) ==
    IF s = <<>> THEN s
    ELSE IF Head(s) = c THEN Strip(Tail(s), c)
    ELSE IF s[Len(s)] = c THEN Strip(SubSeq(s, 1, Len(s) - 1), c)
    ELSE s

RECURSIVE Join(_, _)
Join(list, sep) ==
    IF list = <<>> THEN <<>>
    ELSE IF Len(list) = 1 THEN list[1]
    ELSE list[1] \o sep \o Join(Tail(list), sep)

Digit == <<"1", "2", "3", "4", "5", "6", "7", "8", "9">>

RECURSIVE IntStr(_)
IntStr(n) ==
    IF n = 0 THEN <<"0">>
    ELSE IF n < 10 THEN <<Digit[n]>>
    ELSE IntStr(n \div 10) \o IntStr(n % 10)


-----------------------------------------------------------------------------
(* The network: what one requests.get can come to *)

\* the exceptions the client catches around requests.get
CaughtErrors == {"ConnectTimeout", "ConnectionError", "ReadTimeout"}

\* a requests exception outside that tuple
OtherErrors == {"TooManyRedirects"}

\* one entry of a page's data array: a record of the provider, valid for
\* the converter or not
Entry(id, valid) == [id |-> id, valid |-> valid]

\* the pages a provider can answer a fetch at page_offset `off` with: at most
\* `len` entries, a reported total among `totals`
Pages(off, len, totals) ==
    { [kind |-> "page",
       data |-> [i \in 1..Len(v) |-> Entry(off + i - 1, v[i])],
       meta |-> [data_returned |-> n, more_data_available |-> m]] :
      v \in SeqUpTo(BOOLEAN, len), n \in totals, m \in BOOLEAN }

\* a JSON error document: no "data", no "meta"
ErrorDoc == [kind |-> "errors"]

\* the outcomes of the GET of a query: an exception, a body that is not
\* JSON, or a JSON document
QueryOutcomes(pages) ==
    { [kind |-> "exception", exc |-> e] : e \in CaughtErrors \cup OtherErrors }
    \cup { [kind |-> "notjson"] }
    \cup { [kind |-> "json", doc |-> d] : d \in pages \cup {ErrorDoc} }

-----------------------------------------------------------------------------
(* _perform_optimade_query *)

DefaultResponseFields ==
    << <<"structure_features">>, <<"chemical_formula_anonymous">>,
       <<"chemical_formula_descriptive">>, <<"chemical_formula_hill">>,
       <<"chemical_formula_reduced">>, <<"elements">>, <<"nsites">>,
       <<"lattice_vectors">>, <<"species">>, <<"cartesian_site_positions">>,
       <<"species_at_sites">>, <<"nelements">>, <<"nperiodic_dimensions">>,
       <<"last_modified">>, <<"elements_ratios">>, <<"dimension_types">> >>

StructuresEndpoint == <<"/", "structures">>

\* lines 92-96: the endpoint, normalised
NormEndpoint(endpoint) ==
    IF endpoint = None THEN StructuresEndpoint
    ELSE IF endpoint[1] # <<>> THEN <<"/">> \o Strip(endpoint[1], "/")
    ELSE endpoint[1]

\* lines 98-100
UrlPath(url, endpoint) ==
    IF EndsWith(url, <<"/">>) THEN url \o SubSeq(endpoint, 2, Len(endpoint))
    ELSE url \o endpoint

Param(k, v) == <<[k |-> k, v |-> v]>>

\* lines 102-106: a filter is a string or something else (a dict); a falsy
\* one is skipped, a truthy one that is no string is a TypeError
FilterIsTypeError(a) == a.filter_str.val # <<>> /\ a.filter_str.type # "str"

FilterParam(a) ==
    IF a.filter_str.val # <<>> THEN Param("filter", a.filter_str.val) ELSE <<>>

\* lines 108-112
SortParam(a) ==
    IF a.sort.type = "none" THEN <<>>
    ELSE IF a.sort.type = "str" THEN Param("sort", a.sort.val)
    ELSE Param("sort", Join(a.sort.val, <<",">>))

\* lines 114-116
FormatParam(a) ==
    Param("response_format",
          IF a.response_format = None THEN <<"json">> ELSE a.response_format[1])

\* a test of truthiness in place of the test against None
FieldsParamIfTruthy(a) ==
    IF a.response_fields # None /\ a.response_fields[1] # <<>>
    THEN Param("response_fields", a.response_fields[1])
    ELSE IF NormEndpoint(a.endpoint) = StructuresEndpoint
    THEN Param("response_fields", Join(DefaultResponseFields, <<",">>))
    ELSE <<>>

\* lines 118-140
FieldsParam(a) ==
    IF a.response_fields # None
    THEN Param("response_fields", a.response_fields[1])
    ELSE IF NormEndpoint(a.endpoint) = StructuresEndpoint
    THEN Param("response_fields", Join(DefaultResponseFields, <<",">>))
    ELSE <<>>

\* lines 142-143
EmailParam(a) ==
    IF a.email_address # None THEN Param("email_address", a.email_address[1])
    ELSE <<>>

\* lines 145-146; urlencode writes the integer as str() does
LimitParam(a) ==
    IF a.page_limit # None THEN Param("page_limit", IntStr(a.page_limit[1]))
    ELSE <<>>

\* lines 148-152
PagingParams(a) ==
    (IF a.page_offset # None THEN Param("page_offset", IntStr(a.page_offset[1]))
     ELSE <<>>)
    \o (IF a.page_number # None
        THEN Param("page_number", IntStr(a.page_number[1]))
        ELSE <<>>)

\* the dict `queries`, in insertion order
Queries(a) ==
    FilterParam(a) \o SortParam(a) \o FormatParam(a) \o FieldsParam(a)
    \o EmailParam(a) \o LimitParam(a) \o PagingParams(a)

\* urllib's quote_plus on one token: words, digits and "_.-~" are kept
QuoteTok(c) ==
    CASE c = " " -> "+"
      [] c = "," -> "%2C"
      [] c = "/" -> "%2F"
      [] c = "=" -> "%3D"
      [] c = "&" -> "%26"
      [] c = "\"" -> "%22"
      [] OTHER -> c

QuotePlus(s) == [i \in 1..Len(s) |-> QuoteTok(s[i])]

\* urllib's urlencode of the dict
UrlEncode(q) ==
    Join([i \in 1..Len(q) |-> <<q[i].k, "=">> \o QuotePlus(q[i].v)], <<"&">>)

\* line 156
CompleteUrl(a) ==
    UrlPath(a.base_url, NormEndpoint(a.endpoint)) \o <<"?">> \o UrlEncode(Queries(a))

Return(v) == [kind |-> "return", value |-> v]
Raise(exc, msg) == [kind |-> "raise", exc |-> exc, msg |-> msg]

\* lines 167-170
ConnectionFailure(url, exc) ==
    Raise("Exception",
          <<"CLIENT: Connection error or timeout.\nURL: ">> \o url
          \o <<"\nException: ", exc>>)

\* lines 175-178
DecodeFailure(url) ==
    Raise("Exception",
          <<"CLIENT: Cannot decode response to JSON format.\nURL: ">> \o url
          \o <<"\nException: ", "JSONDecodeError">>)

\* how the log of requests records the outcome of a query's GET
QueryLogged(net) == IF net.kind = "exception" THEN net.exc ELSE net.kind

\* an executor that tries a failed GET once more
QueryGetsWithRetry(a, net) ==
    IF net.kind = "exception"
    THEN << [url |-> CompleteUrl(a), outcome |-> QueryLogged(net)],
            [url |-> CompleteUrl(a), outcome |-> QueryLogged(net)] >>
    ELSE <<[url |-> CompleteUrl(a), outcome |-> QueryLogged(net)]>>

\* lines 158-159: the requests.get calls the executor makes for outcome net
QueryGets(a, net) == <<[url |-> CompleteUrl(a), outcome |-> QueryLogged(net)]>>

\* lines 158-180: what the call comes to once the GET has ended as net
QueryResult(a, net) ==
    IF net.kind = "exception"
    THEN IF net.exc \in CaughtErrors
         THEN ConnectionFailure(CompleteUrl(a), net.exc)
         ELSE Raise(net.exc, <<>>)
    ELSE IF net.kind = "notjson" THEN DecodeFailure(CompleteUrl(a))
    ELSE Return(net.doc)

\* the whole call: [gets, ret]
PerformOptimadeQuery(a, net) ==
    IF FilterIsTypeError(a)
    THEN [gets |-> <<>>,
          ret |-> Raise("TypeError", <<"'filter_str' must be either a dict or a str">>)]
    ELSE [gets |-> QueryGets(a, net), ret |-> QueryResult(a, net)]

\* the defaults of the signature, lines 77-87
DefaultArgs(url) ==
    [base_url |-> url, endpoint |-> None,
     filter_str |-> [type |-> "str", val |-> <<>>],
     sort |-> [type |-> "none", val |-> <<>>],
     response_format |-> None, response_fields |-> None,
     email_address |-> None, page_limit |-> Some(1),
     page_offset |-> None, page_number |-> None]

-----------------------------------------------------------------------------
(* The inputs *)

\* get_providers: the provider cache, provider id -> base_url
Providers == {"mp", "cod"}

ProviderBaseUrl(p) ==
    IF p = "mp" THEN <<"https://mp.org", "/", "v", "1">>
    ELSE <<"https://cod.net", "/", "optimade", "/", "v", "1", "/">>

FilterText == <<"elements", " ", "HAS", " ", "\"", "Si", "\"">>

StrFilters == { [type |-> "str", val |-> <<>>], [type |-> "str", val |-> FilterText] }

\* a caller may also hand over something that is no string
Filters == StrFilters \cup { [type |-> "dict", val |-> <<"nsites">>] }

Sorts ==
    { [type |-> "none", val |-> <<>>],
      [type |-> "str", val |-> <<"nsites">>],
      [type |-> "list", val |-> << <<"a">>, <<"-b">> >>] }

Endpoints ==
    { None, Some(<<>>), Some(<<"structures">>), Some(<<"/", "links", "/">>) }

FieldChoices == { None, Some(<<>>), Some(<<"id", ",", "nsites">>) }

\* response_format and email_address: both left out or both given
Extras == { <<None, None>>, <<Some(<<"xml">>), Some(<<"me@example.org">>)>> }

Optional(S) == {None} \cup {Some(x) : x \in S}

QueryArgs ==
    { [base_url |-> ProviderBaseUrl(p), endpoint |-> e, filter_str |-> f,
       sort |-> s, response_format |-> x[1], response_fields |-> rf,
       email_address |-> x[2], page_limit |-> pl, page_offset |-> po,
       page_number |-> pn] :
      p \in Providers, e \in Endpoints, f \in Filters, s \in Sorts,
      x \in Extras, rf \in FieldChoices, pl \in Optional(1..MaxBatch),
      po \in Optional({MaxBatch}), pn \in Optional({1}) }

\* the answers followed for a direct query: pages of at most one entry
DirectOutcomes == QueryOutcomes(Pages(0, 1, {MaxTotal}))

\* the answers followed for a count: any page, any reported total
CountOutcomes == QueryOutcomes(Pages(0, MaxPage, 0..MaxTotal))

\* the answers followed for a fetch of the stream at page_offset off
FetchOutcomes(off) == QueryOutcomes(Pages(off, MaxPage, {MaxTotal}))

-----------------------------------------------------------------------------
(* The structure converter, line 67 *)

\* get_aiida_structure_data(StructureResource(**entry)): the model
\* validation raises on an entry that does not fit the schema
Convert(entry) ==
    IF entry.valid
    THEN Return([type |-> "StructureData", source |-> entry.id])
    ELSE Raise("ValidationError", <<"StructureResource">>)

-----------------------------------------------------------------------------
(* State *)

NoResult == [kind |-> "none"]
NoData == [kind |-> "none"]

Init ==
    /\ op = "none"
    /\ pc = "idle"
    /\ calls = <<>>
    /\ http = <<>>
    /\ result = NoResult
    /\ offset = 0
    /\ batch = 1
    /\ max_results = None
    /\ data = NoData
    /\ idx = 0
    /\ yielded = <<>>
    /\ base_url = <<>>
    /\ probe = 0
    /\ providers = None
    /\ pos = 0
    /\ ok_providers = <<>>
    /\ links = <<>>
    /\ cache_file = None
    /\ profile = None
    /\ computers = <<>>
    /\ codes = <<>>
    /\ nodes = 0
    /\ loads = <<>>

StreamVars == <<offset, batch, max_results, data, idx, yielded>>
ResolverVars == <<base_url, probe>>
CacheVars == <<providers, pos, ok_providers, links, cache_file>>
ProfileVars == <<profile, computers, codes, nodes, loads>>

-----------------------------------------------------------------------------
(* A direct call of _perform_optimade_query, lines 76-180 *)

PerformQueryCall ==
    /\ pc = "idle"
    /\ \E a \in QueryArgs, net \in DirectOutcomes :
         LET r == PerformOptimadeQuery(a, net) IN
         /\ calls' = <<a>>
         /\ http' = r.gets
         /\ data' = IF net.kind = "json" /\ r.gets # <<>> THEN net.doc ELSE NoData
         /\ result' = r.ret
    /\ op' = "query"
    /\ pc' = "done"
    /\ UNCHANGED <<CacheVars, ProfileVars>>
    /\ UNCHANGED <<offset, batch, max_results, idx, yielded, ResolverVars>>

-----------------------------------------------------------------------------
(* count_structures, lines 28-39 *)

CountArgs(provider, f) ==
    [DefaultArgs(ProviderBaseUrl(provider)) EXCEPT
        !.filter_str = f, !.page_limit = Some(1), !.response_fields = Some(<<>>)]

\* a count taken from the page instead of the reported total
CountResultFromPage(ret) ==
    IF ret.kind = "raise" THEN ret
    ELSE IF ret.value.kind = "page" THEN Return(Len(ret.value.data))
    ELSE Raise("KeyError", <<"meta">>)

\* line 39: data["meta"]["data_returned"]
CountResult(ret) ==
    IF ret.kind = "raise" THEN ret
    ELSE IF ret.value.kind = "page" THEN Return(ret.value.meta.data_returned)
    ELSE Raise("KeyError", <<"meta">>)

CountStructures ==
    /\ pc = "idle"
    /\ \E provider \in Providers, f \in Filters, net \in CountOutcomes :
         LET r == PerformOptimadeQuery(CountArgs(provider, f), net) IN
         /\ calls' = <<CountArgs(provider, f)>>
         /\ http' = r.gets
         /\ data' = IF net.kind = "json" /\ r.gets # <<>> THEN net.doc ELSE NoData
         /\ result' = CountResult(r.ret)
    /\ op' = "count"
    /\ pc' = "done"
    /\ UNCHANGED <<CacheVars, ProfileVars>>
    /\ UNCHANGED <<offset, batch, max_results, idx, yielded, ResolverVars>>

-----------------------------------------------------------------------------
(* yield_structures, lines 42-73: a generator, run by its consumer's next() *)

\* the call itself only makes the generator object
YieldStructuresCall ==
    /\ pc = "idle"
    /\ \E provider \in Providers, f \in Filters \ {[type |-> "str", val |-> <<>>]},
          b \in 1..MaxBatch,
          m \in Optional(0..MaxResults) :
         /\ batch' = b
         /\ max_results' = m
         /\ calls' = <<>>
         /\ base_url' = ProviderBaseUrl(provider)
         /\ result' = [kind |-> "generator", filter_str |-> f]
    /\ op' = "stream"
    /\ pc' = "created"
    /\ UNCHANGED <<CacheVars, ProfileVars>>
    /\ UNCHANGED <<http, offset, data, idx, yielded, probe>>

\* the first next(): lines 52-54
NextStart ==
    /\ op = "stream" /\ pc = "created"
    /\ offset' = 0
    /\ pc' = "fetch"
    /\ UNCHANGED <<CacheVars, ProfileVars>>
    /\ UNCHANGED <<op, calls, http, result, batch, max_results, data, idx,
                   yielded, ResolverVars>>

FetchArgs ==
    [DefaultArgs(base_url) EXCEPT
        !.filter_str = result.filter_str, !.page_limit = Some(batch),
        !.page_offset = Some(offset)]

\* lines 56-63: the fetch; a failure of the call, or a document without
\* "data", ends the generator with that exception
Fetch ==
    /\ op = "stream" /\ pc = "fetch"
    /\ Len(calls) < MaxFetch
    /\ \E net \in FetchOutcomes(offset) :
         LET r == PerformOptimadeQuery(FetchArgs, net) IN
         /\ calls' = Append(calls, FetchArgs)
         /\ http' = http \o r.gets
         /\ IF r.ret.kind = "raise"
            THEN /\ pc' = "raised"
                 /\ result' = r.ret
                 /\ UNCHANGED <<data, idx>>
            ELSE IF r.ret.value.kind # "page"
            THEN /\ pc' = "raised"
                 /\ result' = Raise("KeyError", <<"data">>)
                 /\ UNCHANGED <<data, idx>>
            ELSE /\ pc' = "loop"
                 /\ data' = r.ret.value
                 /\ idx' = 1
                 /\ UNCHANGED result
    /\ UNCHANGED <<CacheVars, ProfileVars>>
    /\ UNCHANGED <<op, offset, batch, max_results, yielded, ResolverVars>>

\* lines 63-68: the next entry is converted and yielded; a raising
\* converter ends the generator with its exception
ConvertAndYield ==
    /\ op = "stream" /\ pc = "loop"
    /\ idx <= Len(data.data)
    /\ LET c == Convert(data.data[idx]) IN
       IF c.kind = "raise"
       THEN /\ pc' = "raised"
            /\ result' = c
            /\ UNCHANGED yielded
       ELSE /\ pc' = "yielded"
            /\ yielded' = Append(yielded, c.value)
            /\ UNCHANGED result
    /\ UNCHANGED <<CacheVars, ProfileVars>>
    /\ UNCHANGED <<op, calls, http, offset, batch, max_results, data, idx,
                   ResolverVars>>

\* a cursor that moves by pages instead of by records
AdvanceOffsetByBatch(o) == o + batch

\* the offset after a yield, line 69
AdvanceOffset(o) == o + 1

\* line 70
MaxReached(o) == max_results # None /\ o >= max_results[1]

\* a later next(): lines 69-71
NextResume ==
    /\ op = "stream" /\ pc = "yielded"
    /\ offset' = AdvanceOffset(offset)
    /\ IF MaxReached(offset')
       THEN pc' = "done" /\ UNCHANGED idx
       ELSE pc' = "loop" /\ idx' = idx + 1
    /\ UNCHANGED <<CacheVars, ProfileVars>>
    /\ UNCHANGED <<op, calls, http, result, batch, max_results, data, yielded,
                   ResolverVars>>

\* a generator that fetches on whatever the page reported
PageExhaustedFetchingOn ==
    /\ op = "stream" /\ pc = "loop"
    /\ idx > Len(data.data)
    /\ pc' = "fetch"
    /\ UNCHANGED <<CacheVars, ProfileVars>>
    /\ UNCHANGED <<op, calls, http, result, StreamVars, ResolverVars>>

\* lines 72-73: the page is exhausted
PageExhausted ==
    /\ op = "stream" /\ pc = "loop"
    /\ idx > Len(data.data)
    /\ pc' = IF data.meta.more_data_available THEN "fetch" ELSE "done"
    /\ UNCHANGED <<CacheVars, ProfileVars>>
    /\ UNCHANGED <<op, calls, http, result, StreamVars, ResolverVars>>

-----------------------------------------------------------------------------
(* _get_versioned_base_url, lines 212-319 *)

\* the same tags, the most specific first
version_endpoints_specific_first ==
    << <<"/", "v", "1", ".", "1", ".", "0">>,
       <<"/", "v", "1", ".", "1">>,
       <<"/", "v", "1", ".", "0", ".", "1">>,
       <<"/", "v", "1", ".", "0">>,
       <<"/", "v", "1", ".", "0", ".", "0">>,
       <<"/", "v", "1", ".", "0">>,
       <<"/", "v", "1">>,
       <<"/", "v", "1">>,
       <<"/", "v", "1">> >>

\* the default of the signature, lines 215-225
version_endpoints ==
    << <<"/", "v", "1">>,
       <<"/", "v", "1", ".", "1">>,
       <<"/", "v", "1", ".", "1", ".", "0">>,
       <<"/", "v", "1">>,
       <<"/", "v", "1", ".", "0">>,
       <<"/", "v", "1", ".", "0", ".", "1">>,
       <<"/", "v", "1">>,
       <<"/", "v", "1", ".", "0">>,
       <<"/", "v", "1", ".", "0", ".", "0">> >>

KnownTags == {version_endpoints[i] : i \in DOMAIN version_endpoints}

\* the tokens that are one character long; none is a newline
Chars == {"/", "v", ".", "0", "1", "2", "x", ","}

\* one token of a version tag used as a regular expression: the dot of the
\* tag is the wildcard, every other token stands for itself
RegexTok(p, t) == IF p = "." THEN t \in Chars ELSE p = t

\* re.match(rf".+{pattern}$", url): something, then the pattern at the end
MatchesAtEnd(pattern, url) ==
    /\ Len(url) > Len(pattern)
    /\ \A i \in 1..Len(pattern) :
         RegexTok(pattern[i], url[Len(url) - Len(pattern) + i])

\* a resolver that forgets to cut the trailing slash
VersionedAsUnstripped(version, url) ==
    IF ~Contains(url, version) THEN None
    ELSE IF MatchesAtEnd(version, url) \/ MatchesAtEnd(version \o <<"/">>, url)
    THEN Some(url)
    ELSE None

\* lines 242-246 for one version: <<>> when it does not return
VersionedAs(version, url) ==
    IF ~Contains(url, version) THEN None
    ELSE IF MatchesAtEnd(version, url) THEN Some(url)
    ELSE IF MatchesAtEnd(version \o <<"/">>, url)
    THEN Some(SubSeq(url, 1, Len(url) - 1))
    ELSE None

\* lines 241-246: the first version of the list that returns
AlreadyVersioned(url) ==
    LET hits == {i \in DOMAIN version_endpoints :
                    VersionedAs(version_endpoints[i], url) # None}
    IN IF hits = {} THEN None
       ELSE VersionedAs(
              version_endpoints[CHOOSE i \in hits : \A j \in hits : i <= j], url)

\* lines 285-287 and 294-296
AddVersion(url, version) ==
    IF EndsWith(url, <<"/">>) THEN url \o Tail(version) ELSE url \o version

\* lines 254-256
VersionsEndpoint(url) ==
    IF EndsWith(url, <<"/">>) THEN url \o <<"versions">>
    ELSE url \o <<"/", "versions">>

\* str.split(",")
RECURSIVE Split(_)
Split(line) ==
    IF \A i \in 1..Len(line) : line[i] # ","
    THEN <<line>>
    ELSE LET k == CHOOSE i \in 1..Len(line) :
                    line[i] = "," /\ \A j \in 1..(i - 1) : line[j] # ","
         IN <<SubSeq(line, 1, k - 1)>> \o Split(SubSeq(line, k + 1, Len(line)))

Min(a, b) == IF a < b THEN a ELSE b

\* lines 276-278 for one line: zip(keys, values) is as long as the shorter
\* one, and every key of dict.fromkeys(keys, []) holds the same list, so
\* each value is appended to that one list
ZippedValues(keys, line) ==
    SubSeq(Split(line), 1, Min(Len(keys), Len(Split(line))))

RECURSIVE SharedList(_, _)
SharedList(keys, lines) ==
    IF lines = <<>> THEN <<>>
    ELSE ZippedValues(keys, Head(lines)) \o SharedList(keys, Tail(lines))

\* line 280: versions.get("version", [])
AdvertisedVersions(csv_data) ==
    LET keys == Split(Head(csv_data)) IN
    IF \E i \in 1..Len(keys) : keys[i] = <<"version">>
    THEN SharedList(keys, Tail(csv_data))
    ELSE <<>>

\* lines 280-288: the first advertised version that is a known tag
RECURSIVE FirstKnown(_)
FirstKnown(versions) ==
    IF versions = <<>> THEN None
    ELSE IF <<"/", "v">> \o Head(versions) \in KnownTags
    THEN Some(<<"/", "v">> \o Head(versions))
    ELSE FirstKnown(Tail(versions))

\* lines 268-288, on a 200 answer whose text has the lines csv_data:
\* <<>> when the code falls through to the probing step
FromVersions(url, csv_data) ==
    IF csv_data = <<>> THEN Some(<<>>)
    ELSE IF FirstKnown(AdvertisedVersions(csv_data)) = None THEN None
    ELSE Some(AddVersion(url, FirstKnown(AdvertisedVersions(csv_data))[1]))

\* the candidate of the k-th round of the loop of line 293
Candidate(url, k) == AddVersion(url, version_endpoints[k])

\* line 299
InfoUrl(url, k) == Candidate(url, k) \o <<"/", "info">>

\* what one GET of the resolver comes to: an exception, or a status with a
\* text
Statuses == {"200", "404"}

CsvTexts ==
    { <<>>,
      << <<"version">> >>,
      << <<"version">>, <<"1">> >>,
      << <<"version">>, <<"2">>, <<"1", ".", "1">> >>,
      << <<"version">>, <<"2">> >>,
      << <<"x", ",", "version">>, <<"1", ",", "2">> >>,
      << <<"x">>, <<"1">> >> }

ResolverOutcomes(texts) ==
    { [kind |-> "exception", exc |-> e] : e \in CaughtErrors \cup OtherErrors }
    \cup { [kind |-> "response", status |-> st, text |-> t] :
           st \in Statuses, t \in texts }

\* how the log of requests records an outcome
Logged(net) ==
    IF net.kind = "response" THEN net.status
    ELSE IF net.exc \in CaughtErrors THEN "error"
    ELSE net.exc

\* the URLs handed to the resolver: a host, some path, and an ending
Hosts == { <<"https://mp.org">> }

PathTokens == {"/", "x"}

Endings ==
    KnownTags \cup
    { <<>>, <<"/", "v", "2">>, <<"/", "v", "1", "x", "0">>,
      <<"/", "v", "1", "/", "x">> }

Urls ==
    { h \o p \o e \o sl :
      h \in Hosts, p \in SeqUpTo(PathTokens, MaxPrefix), e \in Endings,
      sl \in {<<>>, <<"/">>} }

\* base_url is a string, or a dict with or without "href"
ResolverInputs ==
    { [type |-> "str", val |-> u] : u \in Urls }
    \cup { [type |-> "dict", href |-> Some(<<"https://mp.org", "/", "v", "1", "/">>)],
           [type |-> "dict", href |-> Some(<<"https://mp.org">>)],
           [type |-> "dict", href |-> None] }

\* lines 238-239
BaseUrlOf(input) ==
    IF input.type = "dict"
    THEN IF input.href = None THEN <<>> ELSE input.href[1]
    ELSE input.val

\* lines 238-251
ResolveCall ==
    /\ pc = "idle"
    /\ \E input \in ResolverInputs :
         /\ base_url' = BaseUrlOf(input)
         /\ IF AlreadyVersioned(base_url') # None
            THEN /\ result' = Return(AlreadyVersioned(base_url')[1])
                 /\ pc' = "done"
            ELSE /\ result' = NoResult
                 /\ pc' = "versions"
    /\ op' = "resolve"
    /\ probe' = 0
    /\ UNCHANGED <<CacheVars, ProfileVars>>
    /\ UNCHANGED <<calls, http, StreamVars>>

\* lines 253-288
RequestVersions ==
    /\ op = "resolve" /\ pc = "versions"
    /\ \E net \in ResolverOutcomes(CsvTexts) :
         /\ http' = Append(http, [url |-> VersionsEndpoint(base_url),
                                  outcome |-> Logged(net)])
         /\ IF net.kind = "exception" /\ net.exc \notin CaughtErrors
            THEN /\ result' = Raise(net.exc, <<>>)
                 /\ pc' = "raised"
                 /\ UNCHANGED probe
            ELSE IF /\ net.kind = "response"
                    /\ net.status = "200"
                    /\ FromVersions(base_url, net.text) # None
            THEN /\ result' = Return(FromVersions(base_url, net.text)[1])
                 /\ pc' = "done"
                 /\ UNCHANGED probe
            ELSE /\ pc' = "probe"
                 /\ probe' = 1
                 /\ UNCHANGED result
    /\ UNCHANGED <<CacheVars, ProfileVars>>
    /\ UNCHANGED <<op, calls, StreamVars, base_url>>

\* a probe that takes any answer of the server for success
ProbeSucceedsOnAnyAnswer(net) == net.kind = "response"

\* line 312: the status that ends the loop with this candidate
ProbeSucceeds(net) == net.kind = "response" /\ net.status = "200"

\* lines 293-319: one round of the loop, and the return "" after the last
ProbeInfo ==
    /\ op = "resolve" /\ pc = "probe"
    /\ \E net \in ResolverOutcomes({<<>>}) :
         /\ http' = Append(http, [url |-> InfoUrl(base_url, probe),
                                  outcome |-> Logged(net)])
         /\ IF net.kind = "exception" /\ net.exc \notin CaughtErrors
            THEN /\ result' = Raise(net.exc, <<>>)
                 /\ pc' = "raised"
                 /\ UNCHANGED probe
            ELSE IF ProbeSucceeds(net)
            THEN /\ result' = Return(Candidate(base_url, probe))
                 /\ pc' = "done"
                 /\ UNCHANGED probe
            ELSE IF probe < Len(version_endpoints)
            THEN /\ probe' = probe + 1
                 /\ UNCHANGED <<pc, result>>
            ELSE /\ result' = Return(<<>>)
                 /\ pc' = "done"
                 /\ UNCHANGED probe
    /\ UNCHANGED <<CacheVars, ProfileVars>>
    /\ UNCHANGED <<op, calls, StreamVars, base_url>>

-----------------------------------------------------------------------------
(* _fetch_providers and update_provider_cache, lines 322-398 *)

MaxProviders == 2   \* most link resources in one "data" array

\* the default of the signature, lines 323-327
providers_urls ==
    << <<"https://providers.optimade.org", "/", "v", "1", "/", "links">>,
       <<"https://raw.githubusercontent.com/Materials-Consortia/providers/master/src",
         "/", "links", "/", "v", "1", "/", "providers.json">> >>

\* a link resource: id, type, attributes.link_type, attributes.base_url
Link(id, link_type, url) ==
    [id |-> id, type |-> "links", link_type |-> link_type, base_url |-> url]

\* the link resources of a providers list: a versioned base URL, an
\* unversioned one, no base URL at all, and a link that is not external
ProviderLinks ==
    { Link("mp", "external", Some(<<"https://mp.org", "/", "v", "1">>)),
      Link("cod", "external", Some(<<"https://cod.net">>)),
      Link("exmpl", "external", None),
      Link("optimade", "root", Some(<<"https://providers.optimade.org">>)) }

\* the link resources a provider lists under /links
ChildLinks ==
    { Link("mp_db", "child", Some(<<"https://mp.org", "/", "db">>)),
      Link("mp_root", "root", Some(<<"https://mp.org">>)),
      Link("mp_void", "child", None) }

\* a JSON document with a "data" array of link resources
LinksDocs(entries) ==
    { [kind |-> "links", data |-> ls] : ls \in SeqUpTo(entries, MaxProviders) }

\* a JSON document with neither "data" nor "errors"
OtherDoc == [kind |-> "other"]

HasData(doc) == doc.kind \in {"page", "links"}
HasErrors(doc) == doc.kind = "errors"

\* lines 336-339: the answer of this providers URL is passed over
PassedOver(doc) ==
    (~HasData(doc) /\ ~HasErrors(doc)) \/ HasErrors(doc)

ProvidersOutcomes == QueryOutcomes(LinksDocs(ProviderLinks) \cup {OtherDoc})

\* line 335
ProvidersArgs(k) == [DefaultArgs(providers_urls[k]) EXCEPT !.endpoint = Some(<<>>)]

\* lines 334-342 from the k-th providers URL on, nets[k] being the outcome
\* of the GET to that URL: [calls, gets, ret]
RECURSIVE ProvidersResponse(_, _)
ProvidersResponse(k, nets) ==
    IF k > Len(providers_urls)
    THEN [calls |-> <<>>, gets |-> <<>>,
          ret |-> Raise("RuntimeError", <<"no valid providers found">>)]
    ELSE LET r == PerformOptimadeQuery(ProvidersArgs(k), nets[k])
             rest == ProvidersResponse(k + 1, nets)
         IN IF r.ret.kind = "raise" \/ ~PassedOver(r.ret.value)
            THEN [calls |-> <<ProvidersArgs(k)>>, gets |-> r.gets, ret |-> r.ret]
            ELSE [calls |-> <<ProvidersArgs(k)>> \o rest.calls,
                  gets |-> r.gets \o rest.gets, ret |-> rest.ret]

\* how a provider's host answers the requests of one resolution: request 1
\* is /versions, request k + 1 the k-th /info probe
Requests == 1..(Len(version_endpoints) + 1)

Answer(status, text) == [kind |-> "response", status |-> status, text |-> text]

HostDown == [k \in Requests |-> [kind |-> "exception", exc |-> "ConnectionError"]]
HostWithout == [k \in Requests |-> Answer("404", <<>>)]
HostWithInfo ==
    [k \in Requests |-> IF k = 1 THEN Answer("404", <<>>) ELSE Answer("200", <<>>)]
HostWithVersions ==
    [k \in Requests |->
        IF k = 1 THEN Answer("200", << <<"version">>, <<"1">> >>)
        ELSE Answer("404", <<>>)]
HostRedirecting ==
    [k \in Requests |-> [kind |-> "exception", exc |-> "TooManyRedirects"]]

HostBehaviours ==
    {HostDown, HostWithout, HostWithInfo, HostWithVersions, HostRedirecting}

\* lines 293-319 from the k-th candidate on: [gets, ret]
RECURSIVE Probed(_, _, _)
Probed(url, k, host) ==
    IF k > Len(version_endpoints)
    THEN [gets |-> <<>>, ret |-> Return(<<>>)]
    ELSE LET net == host[k + 1]
             get == <<[url |-> InfoUrl(url, k), outcome |-> Logged(net)]>>
             rest == Probed(url, k + 1, host)
         IN IF net.kind = "exception" /\ net.exc \notin CaughtErrors
            THEN [gets |-> get, ret |-> Raise(net.exc, <<>>)]
            ELSE IF ProbeSucceeds(net)
            THEN [gets |-> get, ret |-> Return(Candidate(url, k))]
            ELSE [gets |-> get \o rest.gets, ret |-> rest.ret]

\* lines 238-319, a whole call of _get_versioned_base_url(url) against a
\* host: [gets, ret]
GetVersionedBaseUrl(url, host) ==
    IF AlreadyVersioned(url) # None
    THEN [gets |-> <<>>, ret |-> Return(AlreadyVersioned(url)[1])]
    ELSE LET net == host[1]
             get == <<[url |-> VersionsEndpoint(url), outcome |-> Logged(net)]>>
             rest == Probed(url, 1, host)
         IN IF net.kind = "exception" /\ net.exc \notin CaughtErrors
            THEN [gets |-> get, ret |-> Raise(net.exc, <<>>)]
            ELSE IF /\ net.kind = "response"
                    /\ net.status = "200"
                    /\ FromVersions(url, net.text) # None
            THEN [gets |-> get, ret |-> Return(FromVersions(url, net.text)[1])]
            ELSE [gets |-> get \o rest.gets, ret |-> rest.ret]

\* update_provider_cache calls _fetch_providers, line 396; lines 334-345
FetchProvidersCall ==
    /\ pc = "idle"
    /\ \E nets \in [1..Len(providers_urls) -> ProvidersOutcomes] :
         LET r == ProvidersResponse(1, nets) IN
         /\ calls' = r.calls
         /\ http' = r.gets
         /\ IF r.ret.kind = "raise"
            THEN /\ result' = r.ret
                 /\ pc' = "raised"
                 /\ UNCHANGED <<providers, pos>>
            ELSE /\ providers' = Some(r.ret.value.data)
                 /\ pos' = 1
                 /\ pc' = IF r.ret.value.data = <<>> THEN "links" ELSE "providers"
                 /\ UNCHANGED result
    /\ op' = "update_cache"
    /\ ok_providers' = <<>>
    /\ links' = <<>>
    /\ UNCHANGED <<data, cache_file, StreamVars, ResolverVars, ProfileVars>>

\* lines 346-356: one round of the loop over the providers; line 355
\* writes the resolved URL into the link resource itself
ResolveProvider ==
    /\ op = "update_cache" /\ pc = "providers"
    /\ LET provider == providers[1][pos]
           last == pos = Len(providers[1])
       IN
       IF provider.link_type # "external" \/ provider.base_url = None
       THEN /\ pos' = IF last THEN 1 ELSE pos + 1
            /\ pc' = IF last THEN "links" ELSE "providers"
            /\ UNCHANGED <<http, result, providers, ok_providers>>
       ELSE \E host \in HostBehaviours :
              LET r == GetVersionedBaseUrl(provider.base_url[1], host) IN
              /\ http' = http \o r.gets
              /\ IF r.ret.kind = "raise"
                 THEN /\ result' = r.ret
                      /\ pc' = "raised"
                      /\ UNCHANGED <<providers, pos, ok_providers>>
                 ELSE /\ pos' = IF last THEN 1 ELSE pos + 1
                      /\ pc' = IF last THEN "links" ELSE "providers"
                      /\ UNCHANGED result
                      /\ IF r.ret.value = <<>>
                         THEN UNCHANGED <<providers, ok_providers>>
                         ELSE LET versioned ==
                                    [provider EXCEPT !.base_url = Some(r.ret.value)]
                              IN /\ providers' = Some([providers[1] EXCEPT ![pos] = versioned])
                                 /\ ok_providers' = Append(ok_providers, versioned)
    /\ UNCHANGED <<op, calls, links, data, cache_file, StreamVars, ResolverVars,
                   ProfileVars>>

\* the parameters of _perform_optimade_query, lines 77-87
ExecutorParameters ==
    {"base_url", "endpoint", "filter_str", "sort", "response_format",
     "response_fields", "email_address", "page_limit", "page_offset",
     "page_number", "timeout"}

\* line 360
ChildFilter ==
    <<"(", " ", "link_type", "=", "\"", "child", "\"", " ", "OR", " ", "type",
      "=", "\"", "child", "\"", " ", ")">>

\* line 362: the keyword the filter is passed under
LinksKeyword == "filter"

LinksArgs(url) ==
    [DefaultArgs(url) EXCEPT
        !.endpoint = Some(<<"/", "links">>),
        !.filter_str = IF LinksKeyword = "filter_str"
                       THEN [type |-> "str", val |-> ChildFilter] ELSE @]

\* lines 361-363: a keyword that names no parameter makes the call itself
\* raise TypeError, and the body of the function never runs
CallLinks(url, net) ==
    IF LinksKeyword \notin ExecutorParameters
    THEN [calls |-> <<>>, gets |-> <<>>,
          ret |-> Raise("TypeError", <<"_perform_optimade_query() got an unexpected keyword argument", LinksKeyword>>)]
    ELSE [calls |-> <<LinksArgs(url)>>,
          gets |-> PerformOptimadeQuery(LinksArgs(url), net).gets,
          ret |-> PerformOptimadeQuery(LinksArgs(url), net).ret]

LinksOutcomes == QueryOutcomes(LinksDocs(ChildLinks) \cup {OtherDoc})

\* lines 364-374: response.get("data", []), filtered
Implementations(doc) ==
    IF ~HasData(doc) THEN <<>>
    ELSE SelectSeq(doc.data,
                   LAMBDA imp : /\ imp.link_type = "child" \/ imp.type = "child"
                                /\ imp.base_url # None
                                /\ imp.base_url[1] # <<>>)

\* lines 375-387 over the implementations imps: [gets, ret], ret being
\* the entries to append or the exception of a resolution
RECURSIVE Resolved(_, _)
Resolved(imps, host) ==
    IF imps = <<>> THEN [gets |-> <<>>, ret |-> Return(<<>>)]
    ELSE LET r == GetVersionedBaseUrl(Head(imps).base_url[1], host)
             rest == Resolved(Tail(imps), host)
             entry == [id |-> Head(imps).id, base_url |-> r.ret.value]
         IN IF r.ret.kind = "raise" THEN r
            ELSE IF rest.ret.kind = "raise"
            THEN [gets |-> r.gets \o rest.gets, ret |-> rest.ret]
            ELSE [gets |-> r.gets \o rest.gets,
                  ret |-> Return((IF r.ret.value = <<>> THEN <<>> ELSE <<entry>>)
                                 \o rest.ret.value)]

\* lines 359-387: one round of the loop over ok_providers
QueryLinks ==
    /\ op = "update_cache" /\ pc = "links"
    /\ pos <= Len(ok_providers)
    /\ \E net \in LinksOutcomes, host \in HostBehaviours :
         LET q == CallLinks(ok_providers[pos].base_url[1], net)
             r == Resolved(Implementations(q.ret.value), host)
         IN
         /\ calls' = calls \o q.calls
         /\ IF q.ret.kind = "raise"
            THEN /\ http' = http \o q.gets
                 /\ result' = q.ret
                 /\ pc' = "raised"
                 /\ UNCHANGED <<pos, links>>
            ELSE /\ http' = http \o q.gets \o r.gets
                 /\ IF r.ret.kind = "raise"
                    THEN /\ result' = r.ret
                         /\ pc' = "raised"
                         /\ UNCHANGED <<pos, links>>
                    ELSE /\ links' = links \o r.ret.value
                         /\ pos' = pos + 1
                         /\ UNCHANGED <<pc, result>>
    /\ UNCHANGED <<op, providers, ok_providers, data, cache_file, StreamVars,
                   ResolverVars, ProfileVars>>

\* line 389, and lines 396-398: the list is returned and written to the
\* cache file
ReturnLinks ==
    /\ op = "update_cache" /\ pc = "links"
    /\ pos > Len(ok_providers)
    /\ result' = Return(links)
    /\ cache_file' = Some(links)
    /\ pc' = "done"
    /\ UNCHANGED <<op, calls, http, providers, pos, ok_providers, links, data,
                   StreamVars, ResolverVars, ProfileVars>>

-----------------------------------------------------------------------------
(* load_temp_profile, temp_profile.py lines 31-133.  The storage of a      *)
(* profile is the rows of its Computer and Code tables; an object is known *)
(* by its uuid.                                                            *)

MaxLoads == 3       \* most calls of load_temp_profile that are followed

\* the name argument: the default and another one
ProfileNames == {"temp_profile", "other"}

\* line 64: the profile is made and loaded unless it is the loaded one
MustCreateProfile(name) == ~(profile # None /\ profile[1] = name)

\* Computer.collection.get(label=...), line 104
ComputersLabelled(cs, label) == SelectSeq(cs, LAMBDA c : c.label = label)

\* a lookup that never finds the row
NotExistentAlways(found) == TRUE

\* get_or_create, line 104: created is True when no row has the label
NotExistent(found) == found = <<>>

\* load_computer, lines 102-117: [computers, nodes, ret]; a lookup that
\* finds several rows raises
LoadComputer(cs, n) ==
    LET found == ComputersLabelled(cs, "local_direct")
        computer == [uuid |-> n + 1, label |-> "local_direct"]
    IN IF NotExistent(found)
       THEN [computers |-> Append(cs, computer), nodes |-> n + 1,
             ret |-> Return(computer)]
       ELSE IF Len(found) > 1
       THEN [computers |-> cs, nodes |-> n,
             ret |-> Raise("MultipleObjectsError", <<"local_direct">>)]
       ELSE [computers |-> cs, nodes |-> n, ret |-> Return(found[1])]

\* orm.load_code("pw.x@local_direct"), line 123: the rows the identifier
\* label@computer names
CodesIdentified(cds, cs, label, computer_label) ==
    SelectSeq(cds, LAMBDA c :
        /\ c.label = label
        /\ \E i \in DOMAIN cs :
             cs[i].uuid = c.computer /\ cs[i].label = computer_label)

\* load_pw_code, lines 120-133: [codes, nodes, ret]; the bare except takes
\* every failure of load_code for "no such code"
LoadPwCode(cds, cs, n, computer) ==
    LET found == CodesIdentified(cds, cs, "pw.x", "local_direct")
        code == [uuid |-> n + 1, label |-> "pw.x", computer |-> computer.uuid]
    IN IF Len(found) = 1
       THEN [codes |-> cds, nodes |-> n, ret |-> Return(found[1])]
       ELSE [codes |-> Append(cds, code), nodes |-> n + 1, ret |-> Return(code)]

\* load_temp_profile, lines 31-99, with add_sssp and add_structure_si left
\* at their default False; pwx tells whether shutil.which finds pw.x
LoadTempProfile ==
    /\ pc = "idle" \/ (op = "load" /\ Len(loads) < MaxLoads)
    /\ \E name \in ProfileNames, add_computer \in BOOLEAN,
          add_pw_code \in BOOLEAN, pwx \in BOOLEAN :
         LET cs0 == IF MustCreateProfile(name) THEN <<>> ELSE computers
             cds0 == IF MustCreateProfile(name) THEN <<>> ELSE codes
             c == LoadComputer(cs0, nodes)
             wants_code == c.ret.kind = "return" /\ add_pw_code
             p == LoadPwCode(cds0, c.computers, c.nodes, c.ret.value)
             ret == IF ~pwx
                    THEN Raise("RuntimeError", <<"pw.x not found in PATH">>)
                    ELSE IF ~add_computer
                    THEN Return([profile |-> name, computer |-> None, code |-> None])
                    ELSE IF c.ret.kind = "raise" THEN c.ret
                    ELSE Return([profile |-> name,
                                 computer |-> Some(c.ret.value),
                                 code |-> IF wants_code THEN Some(p.ret.value)
                                          ELSE None])
         IN
         /\ profile' = Some(name)
         /\ computers' = IF pwx /\ add_computer THEN c.computers ELSE cs0
         /\ codes' = IF pwx /\ add_computer /\ wants_code THEN p.codes ELSE cds0
         /\ nodes' = IF ~(pwx /\ add_computer) THEN nodes
                     ELSE IF wants_code THEN p.nodes ELSE c.nodes
         /\ result' = ret
         /\ pc' = IF ret.kind = "raise" THEN "raised" ELSE "done"
         /\ loads' = Append(loads, [name |-> name, add_computer |-> add_computer,
                                    add_pw_code |-> add_pw_code, ret |-> ret])
    /\ op' = "load"
    /\ UNCHANGED <<calls, http, data, StreamVars, ResolverVars, CacheVars>>

-----------------------------------------------------------------------------
Next ==
    \/ PerformQueryCall
    \/ CountStructures
    \/ YieldStructuresCall
    \/ NextStart
    \/ Fetch
    \/ ConvertAndYield
    \/ NextResume
    \/ PageExhausted
    \/ ResolveCall
    \/ RequestVersions
    \/ ProbeInfo
    \/ FetchProvidersCall
    \/ ResolveProvider
    \/ QueryLinks
    \/ ReturnLinks
    \/ LoadTempProfile

Spec == Init /\ [][Next]_vars

-----------------------------------------------------------------------------
(* The paginated stream *)

\* the fetches of the stream that issued their GET
Fetched == 1..Len(http)

\* C1: every fetch of the stream sends, as page_offset, the number of
\* records yielded to the consumer so far (0 on the first fetch), and as
\* page_limit the batch the stream was made with, which never changes.
C1_OffsetIsYieldedCount ==
    [][(op = "stream" /\ Len(calls') > Len(calls)) =>
         /\ calls'[Len(calls')].page_offset = Some(Len(yielded))
         /\ calls'[Len(calls')].page_limit = Some(batch)
         /\ (calls = <<>> => calls'[1].page_offset = Some(0))
         /\ batch' = batch]_vars

\* a second fetch, after three records were yielded from a page longer
\* than the batch
C1_Witness ==
    /\ op = "stream"
    /\ Len(http) >= 2
    /\ batch = 2
    /\ calls[2].page_offset = Some(3)
    /\ Len(yielded) = 3

\* C2: with max_results = M and a provider that always reports more data,
\* the stream ends after exactly M records and never issues a fetch at a
\* page_offset of M or more.
C2_ExactlyMaxResults ==
    (op = "stream" /\ max_results # None /\ pc = "done"
        /\ data.meta.more_data_available) =>
        /\ Len(yielded) = max_results[1]
        /\ \A i \in Fetched : calls[i].page_offset[1] < max_results[1]

\* C3: a record whose conversion raises does not end the stream: the page
\* is iterated to its end, the offset has then advanced by the length of the
\* page, and every valid record of the page was yielded.
C3_ConversionFailureSkipped ==
    op = "stream" =>
        /\ ~(pc = "raised" /\ result.exc = "ValidationError")
        /\ (pc = "loop" /\ idx > Len(data.data) /\ \E i \in 1..Len(data.data) : ~data.data[i].valid) =>
               /\ offset = calls[Len(calls)].page_offset[1] + Len(data.data)
               /\ \A i \in 1..Len(data.data) :
                    data.data[i].valid =>
                      \E j \in 1..Len(yielded) : yielded[j] = Convert(data.data[i]).value

-----------------------------------------------------------------------------
(* The endpoint version resolver *)

StripOneSlash(url) ==
    IF EndsWith(url, <<"/">>) THEN SubSeq(url, 1, Len(url) - 1) ELSE url

EndsInKnownTag(url) ==
    \E t \in KnownTags : EndsWith(url, t) \/ EndsWith(url, t \o <<"/">>)

\* C4: a base URL that ends in a known version tag, with or without one
\* trailing slash, resolves to itself without the trailing slash, and no
\* HTTP request is made.
C4_VersionedUrlResolvesToItself ==
    (op = "resolve" /\ EndsInKnownTag(base_url)) =>
        /\ pc = "done"
        /\ http = <<>>
        /\ result = Return(StripOneSlash(base_url))

\* a URL ending in /v1.0.1/ was resolved
C4_Witness ==
    /\ op = "resolve"
    /\ EndsWith(base_url, <<"/", "v", "1", ".", "0", ".", "1", "/">>)
    /\ result.kind = "return"
    /\ result.value = SubSeq(base_url, 1, Len(base_url) - 1)

\* the /info probes among the requests of the resolver
Probes == 2..Len(http)

FailedOutcomes == {"error", "404"}

\* C5: a network error or a non-200 status, on /versions or on an /info
\* probe, is never raised to the caller and never stops the resolution
\* before the last candidate; the probing step returns the first candidate,
\* in list order, whose probe answered 200, and the empty string if none did.
C5_ProbeFailuresAreNotFatal ==
    op = "resolve" =>
        /\ (pc = "raised" => result.exc \notin CaughtErrors)
        /\ (/\ http # <<>>
            /\ http[Len(http)].outcome \in FailedOutcomes
            /\ Len(http) < 1 + Len(version_endpoints)) => pc = "probe"
        /\ (pc = "done" /\ Len(http) >= 2) =>
              /\ result.kind = "return"
              /\ \A k \in Probes : k < Len(http) => http[k].outcome # "200"
              /\ IF http[Len(http)].outcome = "200"
                 THEN result.value = AddVersion(base_url, version_endpoints[Len(http) - 1])
                 ELSE /\ result.value = <<>>
                      /\ Len(http) = 1 + Len(version_endpoints)

\* /versions failed with a network error, two probes failed, the third
\* answered 200 and its candidate was returned
C5_Witness ==
    /\ op = "resolve" /\ pc = "done"
    /\ Len(http) = 4
    /\ http[1].outcome = "error"
    /\ http[2].outcome = "error"
    /\ http[3].outcome = "404"
    /\ http[4].outcome = "200"
    /\ result.value = base_url \o <<"/", "v", "1", ".", "1", ".", "0">>

V1 == <<"/", "v", "1">>

InfoOf(tag) == AddVersion(base_url, tag) \o <<"/", "info">>

\* C6 as stated: the most specific tag goes first, so that by the time /v1
\* is probed every more specific tag has been probed.
C6_MostSpecificFirst ==
    op = "resolve" =>
        \A k \in Probes :
            http[k].url = InfoOf(V1) =>
                \A t \in KnownTags \ {V1} :
                    \E j \in Probes : j < k /\ http[j].url = InfoOf(t)

\* the order the probes are made in
ProbeOrder ==
    << V1, V1 \o <<".", "1">>, V1 \o <<".", "1", ".", "0">>,
       V1, V1 \o <<".", "0">>, V1 \o <<".", "0", ".", "1">>,
       V1, V1 \o <<".", "0">>, V1 \o <<".", "0", ".", "0">> >>

\* C6, amended: the tags are probed in the fixed order /v1, /v1.1, /v1.1.0,
\* /v1, /v1.0, /v1.0.1, /v1, /v1.0, /v1.0.0: the major tag first and, in
\* each series, the minor tag before the patch-level tag; a tag more specific
\* than /v1 is returned by the probing step only after the /v1 probe failed.
C6_MajorTagFirst ==
    op = "resolve" =>
        /\ \A k \in Probes : http[k].url = InfoOf(ProbeOrder[k - 1])
        /\ (pc = "done" /\ Len(http) >= 2 /\ result.value \notin {<<>>, AddVersion(base_url, V1)}) =>
              /\ http[2].url = InfoOf(V1)
              /\ http[2].outcome \in FailedOutcomes

\* /v1 failed and /v1.1 was returned
C6_Witness ==
    /\ op = "resolve" /\ pc = "done"
    /\ Len(http) = 3
    /\ http[2].outcome = "404"
    /\ result.value = base_url \o <<"/", "v", "1", ".", "1">>

-----------------------------------------------------------------------------
(* The query executor *)

\* the URL of the GET of a direct call
RequestUrl == http[1].url

\* C7: a call with both page_offset and page_number is rejected before any
\* request is made, and no request carries both parameters.
C7_BothPagingModesRejected ==
    op = "query" =>
        /\ (calls[1].page_offset # None /\ calls[1].page_number # None) =>
              (http = <<>> /\ result.kind = "raise")
        /\ http # <<>> =>
              ~(/\ Contains(RequestUrl, <<"page_offset", "=">>)
                /\ Contains(RequestUrl, <<"page_number", "=">>))

ExpectedDefaultFields ==
    << "response_fields", "=",
       "structure_features", "%2C", "chemical_formula_anonymous", "%2C",
       "chemical_formula_descriptive", "%2C", "chemical_formula_hill", "%2C",
       "chemical_formula_reduced", "%2C", "elements", "%2C", "nsites", "%2C",
       "lattice_vectors", "%2C", "species", "%2C",
       "cartesian_site_positions", "%2C", "species_at_sites", "%2C",
       "nelements", "%2C", "nperiodic_dimensions", "%2C", "last_modified",
       "%2C", "elements_ratios", "%2C", "dimension_types" >>

\* the query string holds the parameter `param` (key, "=", value) whole
HasParam(url, param) ==
    \/ EndsWith(url, param)
    \/ Contains(url, param \o <<"&">>)

\* the query string holds key= with nothing after it
HasEmptyParam(url, key) == HasParam(url, <<key, "=">>)

IsStructures(endpoint) ==
    endpoint = None \/ (endpoint # None /\ Strip(endpoint[1], "/") = <<"structures">>)

\* C8 as stated, for the empty string: no response_fields parameter at all.
C8_EmptyFieldsSendNoParameter ==
    (op = "query" /\ http # <<>> /\ calls[1].response_fields = Some(<<>>)) =>
        ~Contains(RequestUrl, <<"response_fields">>)

\* C8, amended: unset and the structures endpoint, the fixed default list is
\* sent; unset and another endpoint, no response_fields parameter is sent;
\* the empty string, the parameter is sent with an empty value
\* (response_fields=); a non-empty string, exactly that string is sent.
C8_ResponseFieldsAssembly ==
    (op = "query" /\ http # <<>>) =>
        LET a == calls[1] IN
        /\ (a.response_fields = None /\ IsStructures(a.endpoint)) =>
              HasParam(RequestUrl, ExpectedDefaultFields)
        /\ (a.response_fields = None /\ ~IsStructures(a.endpoint)) =>
              ~Contains(RequestUrl, <<"response_fields">>)
        /\ a.response_fields = Some(<<>>) =>
              HasEmptyParam(RequestUrl, "response_fields")
        /\ a.response_fields = Some(<<"id", ",", "nsites">>) =>
              HasParam(RequestUrl, <<"response_fields", "=", "id", "%2C", "nsites">>)

\* the empty string was given on the structures endpoint and went out as
\* response_fields=
C8_Witness ==
    /\ op = "query" /\ http # <<>>
    /\ calls[1].response_fields = Some(<<>>)
    /\ calls[1].endpoint = None
    /\ Contains(RequestUrl, <<"response_fields", "=", "&", "page_limit">>)

\* C9: a call that passes the check of its arguments issues exactly one GET
\* and none after it; a GET that fails with one of the three network errors,
\* or answers with a body that is no JSON, makes the call raise a failure
\* whose message holds the complete URL and the cause; any other answer is
\* returned, the decoded document unchanged.
C9_OneGetNoRetry ==
    op = "query" =>
        /\ Len(http) <= 1
        /\ http = <<>> => (result.kind = "raise" /\ result.exc = "TypeError")
        /\ http # <<>> =>
             LET o == http[1].outcome IN
             /\ o \in CaughtErrors =>
                   /\ result.kind = "raise"
                   /\ Contains(result.msg, RequestUrl)
                   /\ Contains(result.msg, <<o>>)
             /\ o = "notjson" =>
                   /\ result.kind = "raise"
                   /\ Contains(result.msg, RequestUrl)
                   /\ Contains(result.msg, <<"JSONDecodeError">>)
             /\ o = "json" => result = Return(data)

\* a read timeout on a request with a filter was raised with its URL
C9_Witness ==
    /\ op = "query" /\ Len(http) = 1
    /\ http[1].outcome = "ReadTimeout"
    /\ calls[1].filter_str.val # <<>>
    /\ result.kind = "raise"
    /\ Contains(result.msg, <<"filter", "=", "elements">>)

-----------------------------------------------------------------------------
(* The count query *)

\* C10: count_structures makes one query, with page_limit = 1 and the empty
\* string as response_fields, and returns meta.data_returned of the answer,
\* whatever the data array holds; it converts no record.
C10_CountIsReportedTotal ==
    op = "count" =>
        /\ Len(calls) = 1 /\ Len(http) <= 1
        /\ calls[1].page_limit = Some(1)
        /\ calls[1].response_fields = Some(<<>>)
        /\ http # <<>> =>
              /\ Contains(http[1].url, <<"page_limit", "=", "1">>)
              /\ HasEmptyParam(http[1].url, "response_fields")
        /\ yielded = <<>>
        /\ (http # <<>> /\ http[1].outcome = "json" /\ data.kind = "page") =>
              result = Return(data.meta.data_returned)

\* a page of three entries that reports a total of 2: the count is 2
C10_Witness ==
    /\ op = "count"
    /\ data.kind = "page"
    /\ Len(data.data) = 3
    /\ data.meta.data_returned = 2
    /\ result = Return(2)

-----------------------------------------------------------------------------
(* The refresh of the provider cache *)

(* C11: once update_provider_cache has the list of providers, no single   *)
(* provider makes it fail: a provider that does not resolve, or whose      *)
(* /links query fails, is skipped, and the refresh goes on to return a     *)
(* list.  So the refresh never ends with an exception of its own calls;    *)
(* left aside are the exceptions of the transport library that no          *)
(* function of the client handles.                                         *)
C11_UnreachableProvidersAreSkipped ==
    (op = "update_cache" /\ pc = "raised" /\ providers # None)
        => result.exc \in OtherErrors

-----------------------------------------------------------------------------
(* The temporary profile *)

SameName == \A i, j \in DOMAIN loads : loads[i].name = loads[j].name

WithComputerAndCode(i) ==
    /\ loads[i].add_computer
    /\ loads[i].add_pw_code
    /\ loads[i].ret.kind = "return"

(* C12: load_temp_profile is idempotent on computers and codes.  After any *)
(* number of calls that all name the same profile, the storage holds at    *)
(* most one computer local_direct and at most one code pw.x@local_direct,  *)
(* and every call with add_computer = add_pw_code = True that returned     *)
(* has returned exactly the one computer and the one code the storage      *)
(* holds.                                                                  *)
C12_LoadTempProfileIsIdempotent ==
    (op = "load" /\ SameName) =>
        /\ Len(ComputersLabelled(computers, "local_direct")) <= 1
        /\ Len(CodesIdentified(codes, computers, "pw.x", "local_direct")) <= 1
        /\ Len(computers) <= 1 /\ Len(codes) <= 1
        /\ \A i \in DOMAIN loads :
             WithComputerAndCode(i) =>
               /\ computers = <<loads[i].ret.value.computer[1]>>
               /\ codes = <<loads[i].ret.value.code[1]>>

\* three calls for the same profile, each asking for computer and code
C12_Witness ==
    /\ op = "load" /\ SameName
    /\ Len(loads) >= 3
    /\ \A i \in DOMAIN loads : WithComputerAndCode(i)
    /\ Len(computers) = 1 /\ Len(codes) = 1

-----------------------------------------------------------------------------
(* The fallback of the resolver *)

(* C13: for a base URL that does not end in a known version tag, the       *)
(* resolver returns the empty string only after it has probed              *)
(* <candidate>/info for every known version tag, in the order of the list, *)
(* and every probe has failed -- whatever the /versions request came to.   *)
C13_EmptyOnlyAfterEveryProbe ==
    ( /\ op = "resolve" /\ pc = "done"
      /\ AlreadyVersioned(base_url) = None
      /\ result = Return(<<>>) )
        => /\ Len(http) = 1 + Len(version_endpoints)
           /\ \A k \in Probes :
                /\ http[k].url = InfoUrl(base_url, k - 1)
                /\ http[k].outcome \in FailedOutcomes

-----------------------------------------------------------------------------
(* The end of the stream and the pacing of its fetches *)

\* a step of the stream that issues a fetch after the first one
LaterFetch == op = "stream" /\ calls # <<>> /\ Len(calls') > Len(calls)

\* a step that ends the stream while max_results is unset or not reached
EndsBelowMax == op = "stream" /\ pc # "done" /\ pc' = "done" /\ ~MaxReached(offset')

\* every entry of the page in data was yielded, and these are the last
\* records the consumer got
PageYielded ==
    /\ idx > Len(data.data)
    /\ Len(yielded) >= Len(data.data)
    /\ \A i \in 1..Len(data.data) :
         yielded[Len(yielded) - Len(data.data) + i].source = data.data[i].id

(* C14: below max_results, the stream ends only after a page that reported *)
(* more_data_available = false, once that page's records were all yielded, *)
(* and without a further fetch; and a fetch after the first is issued only *)
(* after a page that reported more_data_available = true, once all its     *)
(* records were yielded and the consumer has come back for another one     *)
(* (the offset counts every yielded record as consumed).                   *)
C14_NoFetchAheadOfConsumption ==
    [][ /\ EndsBelowMax =>
            /\ ~data.meta.more_data_available
            /\ PageYielded
            /\ calls' = calls /\ http' = http
        /\ LaterFetch =>
            /\ data.meta.more_data_available
            /\ PageYielded
            /\ offset = Len(yielded)
            /\ Len(calls') = Len(calls) + 1
            /\ calls'[Len(calls')].page_offset = Some(Len(yielded)) ]_vars

\* a second fetch was issued after a page of two records, and the stream
\* ended after a page that reported no more data
C14_Witness ==
    /\ op = "stream" /\ pc = "done"
    /\ ~MaxReached(offset)
    /\ Len(calls) = 2
    /\ calls[2].page_offset = Some(2)
    /\ Len(yielded) = 3
    /\ ~data.meta.more_data_available

-----------------------------------------------------------------------------
(* The progress of the stream *)

(* C15: every fetch of the stream after the first asks for a page_offset   *)
(* strictly greater than the fetch before it, also after a page that came  *)
(* back empty while reporting more_data_available = true.                  *)
C15_EveryFetchAdvances ==
    op = "stream" =>
        \A i \in 2..Len(calls) :
            calls[i].page_offset[1] > calls[i - 1].page_offset[1]

=============================================================================
